---------------------------- MODULE Spec2Model ----------------------------
(***************************************************************************)
(* Parallel bulk-load orchestration of Freakt01d/Coll.                     *)
(*                                                                         *)
(*   SpecSplit  dbtodb.split_csv, one loop iteration per step              *)
(*   Spec       a run of import_csv_24_processes.main (suspend, pool of    *)
(*              loaders into staging tables, merge, drop, restore) or of   *)
(*              dbtodb.transfer_table (suspend, split, pool of loaders     *)
(*              into the destination table, restore)                       *)
(*   FairSpec   Spec with every enabled step eventually taken              *)
(*   SpecInterrupt  Spec with Ctrl-C or an unhandled exception at any      *)
(*              statement of the run                                       *)
(*   SpecSummary  import_csv_24_processes.main from the end of its load    *)
(*              phase, for up to MaxSummaryUnits files                     *)
(*   SpecSizes  dbtodb.split_csv, one chunk per step of the recursion,     *)
(*              on small files and on files of ten million rows            *)
(*   SpecPar    a run of par.main (fetch, plan the parts, choose, extract, *)
(*              summary)                                                   *)
(*   SpecTables  dbtodb.main: transfer_table on each table, then the       *)
(*              summary                                                    *)
(*   SpecPaths  import_csv_24_processes.main finding its files and the     *)
(*              paths each unit names                                      *)
(*   SpecTruncate  Spec with the optional truncate of the destination      *)
(*              table before the run                                       *)
(*   SpecHeader  import_csv_24_processes.get_csv_header on a first field   *)
(*                                                                         *)
(* Rows are values: the header line of a CSV file is 0 and its data lines  *)
(* are 1..N; a row of import file i is <<i, k>>.                           *)
(***************************************************************************)
EXTENDS Integers, Sequences, FiniteSets, TLC

\* ------------------------------------------------------------------ bounds
\* Largest number of data lines of the CSV file given to split_csv.
MaxLines == 6
\* Largest chunk count given to split_csv under SpecSplit.
MaxChunks == 4
\* Largest number of CSV files main finds in the directory.
MaxFiles == 3
\* Data rows of each CSV file given to import_csv_24_processes.
RowsPerFile == 1
\* Unique and non-unique indexes of the destination table.
NumUnique == 1
NumNonUnique == 1
\* Worker processes of the import pool (PARALLEL_FILES, 32 in the source,
\* scaled down so that units run together and units queue).
PARALLEL_FILES == 2
\* Chunks and worker processes of dbtodb (PARALLEL_CHUNKS, 16 in the source).
PARALLEL_CHUNKS == 2
\* Largest unit index whose staging table name is compared with the others.
MaxUnitIndex == 120
\* Largest number of files of a run taken at its final summary.
MaxSummaryUnits == 11
\* Largest small row count given to split_csv at chunk granularity.
MaxSizeLines == 24
\* Largest number of partitions get_partitions returns.
MaxPartitions == 9
\* Largest number of tables in TABLES_TO_TRANSFER.
MaxTables == 2
\* Number of file name stems a CSV directory may hold.
MaxStems == 3
\* Largest length of the first field of a CSV file's first line.
MaxFieldLen == 3

\* `failed_files[:10]`: the failed files the final summary names.
FailedFilesShown == 10

VARIABLES
    \* ---- dbtodb.split_csv
    csv_file,         \* the input file: a sequence of lines, header first
    num_chunks,       \* the argument num_chunks
    spc,              \* position in split_csv: "start", "loop", "done"
    total_lines,      \* count_csv_lines(csv_file)
    lines_per_chunk,
    infile,           \* the lines not yet read from infile
    header,           \* the line consumed by next(infile); -1 before it is read
    chunk_num,
    current_lines,
    current_file,     \* TRUE when a chunk file is open, FALSE for None
    chunk_files,      \* the chunk files in creation order: [num, lines]
    \* ---- the run (main of import_csv_24_processes, transfer_table of dbtodb)
    pc,               \* position of the main process
    unit,             \* unit index -> [st, staging_table, target, success, rows_loaded, csv_rows, exit, waited]
    \* ---- the destination database
    idx_status,       \* index name -> "VALID" | "UNUSABLE" (all_indexes.status)
    stg,              \* existing staging tables: name -> set of rows
    final,            \* committed rows of the destination table
    txn,              \* the merge connection's open transaction: {[sink, rows]}
    \* ---- locals of main / transfer_table
    disabled_indexes, \* what disable_indexes returned
    mpc,              \* position in merge_staging_tables
    merge_i,          \* 1-based position in staging_tables
    \* ---- statements issued, in order (what the operator can read in the output)
    merge_log,        \* [sink, rows, outcome] per merge attempt
    rebuild_log,      \* index names whose ALTER INDEX ... REBUILD was issued
    dropped,          \* staging tables dropped by drop_staging_tables
    unusable_at_start, \* indexes a previous run left UNUSABLE
    ensure_log,       \* what ensure_indexes_usable printed: <<index, message>>
    rebuild_failed,   \* index names whose REBUILD raised in rebuild_indexes
    summary,          \* the final summary printed, {} before it is printed
    \* ---- planning at chunk granularity, and par.main
    chunk_sizes,      \* lines written to each chunk file, in chunk order
    partitions,       \* par: the partition names, in partition_position order
    part_ranges,      \* par: (start_idx, end_idx) of each part
    part_num,         \* par: the part the operator chose, 0 before
    extracts,         \* par: the results of pool.map(extract_partition, args_list)
    \* ---- dbtodb.main, and the files and header of import_csv_24_processes
    tables_to_transfer, \* TABLES_TO_TRANSFER
    table_results,    \* results of dbtodb.main: [table_name, success, rows]
    directory,        \* the *.csv / *.CSV files of csv_dir: {[stem, ext]}
    csv_files,        \* csv_files of main, sorted
    paths,            \* per unit, the [ctl_file, log_file] of load_single_file
    first_line,       \* the first field of the first line of a CSV file
    header_parts      \* what get_csv_header returned for it

auxVars == <<tables_to_transfer, table_results, directory, csv_files, paths, first_line, header_parts>>
planVars == <<chunk_sizes, partitions, part_ranges, part_num, extracts, auxVars>>
splitVars == <<csv_file, num_chunks, spc, total_lines, lines_per_chunk, infile, header, chunk_num, current_lines, current_file, chunk_files, planVars>>
dbVars == <<idx_status, stg, final, txn>>
mainVars == <<pc, unit, disabled_indexes, mpc, merge_i>>
idxLogVars == <<unusable_at_start, ensure_log, rebuild_failed>>
logVars == <<merge_log, rebuild_log, dropped, idxLogVars, summary>>
runVars == <<dbVars, mainVars, logVars>>

vars == <<splitVars, runVars>>

Min(a, b) == IF a <= b THEN a ELSE b

\* ------------------------------------------------------- dbtodb.split_csv

\* A CSV file as extract_to_csv writes it: the header line, then n data lines.
CsvFile(n) == <<0>> \o [k \in 1..n |-> k]

\* count_csv_lines: every line is counted, then the header is taken off.
count_csv_lines(f) == Len(f) - 1

\* (total_lines + num_chunks - 1) // num_chunks
LinesPerChunkFloor(total, k) == total \div k
LinesPerChunk(total, k) == (total + k - 1) \div k

\* header = next(infile): the first line is consumed, the loop sees the rest.
ReadHeaderKeep(f) == [header |-> Head(f), rest |-> f]
ReadHeader(f) == [header |-> Head(f), rest |-> Tail(f)]

\* current_file.write(line) on the chunk opened last.
WriteLine(files, line) == [files EXCEPT ![Len(files)].lines = Append(@, line)]

SplitInit ==
    /\ spc = "start"
    /\ total_lines = 0
    /\ lines_per_chunk = 0
    /\ infile = <<>>
    /\ header = -1
    /\ chunk_num = 0
    /\ current_lines = 0
    /\ current_file = FALSE
    /\ chunk_files = <<>>

\* Lines 326-337: count the lines, open the file, read the header.
SplitBegin ==
    /\ pc \in {"split", "db_split"}
    /\ spc = "start"
    /\ total_lines' = count_csv_lines(csv_file)
    /\ lines_per_chunk' = LinesPerChunk(count_csv_lines(csv_file), num_chunks)
    /\ header' = ReadHeader(csv_file).header
    /\ infile' = ReadHeader(csv_file).rest
    /\ chunk_num' = 0
    /\ current_lines' = 0
    /\ current_file' = FALSE
    /\ chunk_files' = <<>>
    /\ spc' = "loop"
    /\ UNCHANGED <<csv_file, num_chunks, planVars, runVars>>

\* Lines 339-352: one iteration of `for line in infile`.
SplitLine ==
    /\ pc \in {"split", "db_split"}
    /\ spc = "loop"
    /\ infile # <<>>
    /\ LET line == Head(infile)
           opened == IF current_file THEN chunk_files ELSE Append(chunk_files, [num |-> chunk_num, lines |-> <<>>])
           full == current_lines + 1 >= lines_per_chunk
       IN /\ chunk_files' = WriteLine(opened, line)
          /\ infile' = Tail(infile)
          /\ current_file' = ~full
          /\ current_lines' = IF full THEN 0 ELSE current_lines + 1
          /\ chunk_num' = IF full THEN chunk_num + 1 ELSE chunk_num
    /\ UNCHANGED <<csv_file, num_chunks, spc, total_lines, lines_per_chunk, header, planVars, runVars>>

\* Lines 354-357: the loop is over, the open chunk is closed.
SplitEnd ==
    /\ pc \in {"split", "db_split"}
    /\ spc = "loop"
    /\ infile = <<>>
    /\ current_file' = FALSE
    /\ spc' = "done"
    /\ UNCHANGED <<csv_file, num_chunks, total_lines, lines_per_chunk, infile, header, chunk_num, current_lines, chunk_files, planVars, runVars>>

\* The run variables under SpecSplit: no run.
NoRun ==
    /\ pc = "split"
    /\ unit = <<>>
    /\ idx_status = <<>>
    /\ stg = <<>>
    /\ final = {}
    /\ txn = {}
    /\ disabled_indexes = <<>>
    /\ mpc = "idle"
    /\ merge_i = 0
    /\ merge_log = <<>>
    /\ rebuild_log = <<>>
    /\ dropped = {}
    /\ unusable_at_start = {}
    /\ ensure_log = {}
    /\ rebuild_failed = {}
    /\ summary = {}

\* No planning at chunk granularity, no run of par.main or dbtodb.main, no
\* file looked at.
NoPlan ==
    /\ chunk_sizes = <<>>
    /\ partitions = <<>>
    /\ part_ranges = <<>>
    /\ part_num = 0
    /\ extracts = <<>>
    /\ tables_to_transfer = <<>>
    /\ table_results = <<>>
    /\ directory = {}
    /\ csv_files = <<>>
    /\ paths = <<>>
    /\ first_line = <<>>
    /\ header_parts = <<>>

InitSplit ==
    /\ csv_file \in {CsvFile(n) : n \in 0..MaxLines}
    /\ num_chunks \in 1..MaxChunks
    /\ SplitInit
    /\ NoPlan
    /\ NoRun

NextSplit ==
    \/ SplitBegin
    \/ SplitLine
    \/ SplitEnd

SpecSplit == InitSplit /\ [][NextSplit]_vars

\* split_csv at chunk granularity: the loop of lines 339-352 closes a chunk
\* when it holds lines_per_chunk lines and line 354 closes the last one, so
\* the chunks take lines_per_chunk lines each while lines remain.
RECURSIVE SizesOf(_, _)
SizesOf(remaining, per) == IF remaining <= 0 THEN <<>> ELSE <<Min(per, remaining)>> \o SizesOf(remaining - Min(per, remaining), per)
ChunkSizes(total, k) == SizesOf(total, LinesPerChunk(total, k))

\* split_csv on a file of total_lines data lines, in one step.
SplitSizes ==
    /\ pc = "split"
    /\ spc = "start"
    /\ lines_per_chunk' = LinesPerChunk(total_lines, num_chunks)
    /\ chunk_sizes' = ChunkSizes(total_lines, num_chunks)
    /\ spc' = "done"
    /\ UNCHANGED <<csv_file, num_chunks, total_lines, infile, header, chunk_num, current_lines, current_file, chunk_files, partitions, part_ranges, part_num, extracts, auxVars, runVars>>

\* Files of 0..MaxSizeLines data lines and of ten million lines and one
\* more, known by their line count only.
InitSizes ==
    /\ csv_file = <<0>>
    /\ num_chunks \in 1..MaxChunks
    /\ spc = "start"
    /\ total_lines \in 0..MaxSizeLines \cup {10000000, 10000001}
    /\ lines_per_chunk = 0
    /\ infile = <<>>
    /\ header = -1
    /\ chunk_num = 0
    /\ current_lines = 0
    /\ current_file = FALSE
    /\ chunk_files = <<>>
    /\ NoPlan
    /\ NoRun

NextSizes == SplitSizes

SpecSizes == InitSizes /\ [][NextSizes]_vars

\* ------------------------------------------- the destination database

\* Python's None for a staging table name.
NoTable == <<>>

\* The table named by `INTO TABLE {SCHEMA}.{table_name}` when no staging
\* table stands in for it.
FinalTable == <<"TABLE">>

\* The indexes of the destination table as all_indexes lists them:
\* (index_name, uniqueness), unique ones first.
AllIndexes == [k \in 1..(NumUnique + NumNonUnique) |-> <<k, IF k <= NumUnique THEN "UNIQUE" ELSE "NONUNIQUE">>]
IndexNames == 1..(NumUnique + NumNonUnique)

\* The elements of a sequence.
Range(s) == {s[k] : k \in 1..Len(s)}

\* The subsequence of s whose elements are in keep.
Filter(s, keep) == LET Test(x) == x \in keep IN SelectSeq(s, Test)

\* The index names of a descriptor list, in order.
Names(indexes) == [k \in 1..Len(indexes) |-> indexes[k][1]]

\* DROP TABLE name PURGE.
DropTableKeep(tables, name) == tables
DropTable(tables, name) == [n \in (DOMAIN tables) \ {name} |-> tables[n]]

\* CREATE TABLE name NOLOGGING AS SELECT * FROM table WHERE 1=0: an empty
\* table of that name; the statement fails when the name is in use.
CreateTable(tables, name) == (name :> {}) @@ tables

\* get_table_indexes: the index list, or [] when the query fails.
get_table_indexes == {AllIndexes, <<>>}

\* `{chunk_id:02d}`: at least two decimal digits, zero padded.
Format02dTwoDigits(n) == <<(n \div 10) % 10, n % 10>>
Format02d(n) == IF n < 10 THEN <<0, n>> ELSE IF n < 100 THEN <<n \div 10, n % 10>> ELSE <<n \div 100, (n \div 10) % 10, n % 10>>

\* staging_name = f"{table_name}_STG{chunk_id:02d}"
StagingNameShared(chunk_id) == <<"_STG">> \o Format02d(0)
StagingName(chunk_id) == <<"_STG">> \o Format02d(chunk_id)

\* create_staging_table: the name returned (None on any error), the staging
\* tables left behind, and the call that raised for a reason of its own
\* ("none" when connect, DROP and CREATE did what the statement says).  A
\* DROP that raises is ignored: without a stale table that is the normal
\* case, with one the CREATE then raises because the name is in use.
create_staging_table(tables, chunk_id) ==
    LET name == StagingName(chunk_id)
        Create(t, fault) == IF name \in DOMAIN t
                            THEN {[staging_table |-> NoTable, tables |-> t, fault |-> fault]}
                            ELSE {[staging_table |-> name, tables |-> CreateTable(t, name), fault |-> fault],
                                  [staging_table |-> NoTable, tables |-> t, fault |-> "create"]}
    IN {[staging_table |-> NoTable, tables |-> tables, fault |-> "connect"]}
       \cup Create(DropTable(tables, name), "none")
       \cup (IF name \in DOMAIN tables THEN Create(tables, "drop") ELSE {})

\* --------------------------------------------------- the external loader

\* One sqlldr run on a file of n rows: how it ended, how many leading rows
\* it saved to its target, whether it left a log with a row count, and
\* whether reading the log raised (the read is inside the worker's try).
\* Exit code 0 is a complete load, 2 a load with rejects; other codes and a
\* timeout may leave any number of rows saved.
LoaderOutcomes(n) ==
    {[kind |-> "exit", rc |-> 0, written |-> n, log |-> TRUE, raised |-> e] : e \in BOOLEAN}
    \cup {[kind |-> "exit", rc |-> 2, written |-> r, log |-> TRUE, raised |-> e] : r \in 0..(n - 1), e \in BOOLEAN}
    \cup {[kind |-> "exit", rc |-> 1, written |-> r, log |-> l, raised |-> FALSE] : r \in 0..n, l \in BOOLEAN}
    \cup {[kind |-> "exit", rc |-> 1, written |-> r, log |-> TRUE, raised |-> TRUE] : r \in 0..n}
    \cup {[kind |-> "timeout", rc |-> 1, written |-> r, log |-> TRUE, raised |-> FALSE] : r \in 0..n}

\* success = result.returncode in (0, 2), reached only when nothing raised;
\* the TimeoutExpired and Exception handlers return a failure.
Success(o) == o.kind = "exit" /\ ~o.raised /\ o.rc \in {0, 2}

\* rows_loaded: the count parsed from the log, 0 without a log and 0 in the
\* TimeoutExpired and Exception handlers.
RowsLoaded(o) == IF o.kind = "timeout" \/ o.raised THEN 0 ELSE IF o.log THEN o.written ELSE 0

\* How the loader process ended, as subprocess.run saw it.
ExitOf(o) == IF o.kind = "timeout" THEN "timeout" ELSE IF o.rc = 0 THEN "rc0" ELSE IF o.rc = 2 THEN "rc2" ELSE "rc1"

\* The rows a loader saved: the first `written` rows of its input file.
Written(rows, o) == {rows[k] : k \in 1..o.written}

\* ------------------------------------------------------ the worker pool

Units == DOMAIN unit

\* Units a pool worker is busy with.
Running == {i \in Units : unit[i].st \in {"Staging", "Stagger", "Loading"}}

Terminal(i) == unit[i].st \in {"Loaded", "Failed"}

\* pool.map returns when every task has returned its result.
PoolDoneAny == \E i \in Units : Terminal(i)
PoolDone == \A i \in Units : Terminal(i)

\* Loaders whose control file names the destination table itself.
FinalLoaders == {i \in Units : unit[i].st = "Loading" /\ unit[i].target = FinalTable}

NewUnit(rows) == [st |-> "Pending", staging_table |-> NoTable, target |-> NoTable, success |-> FALSE, rows_loaded |-> 0, csv_rows |-> rows, exit |-> "none", waited |-> 0]

\* The tasks pool.map has queued and no worker has taken: each element of
\* args_list is one task, handed out once.
QueuedOrFailed(i) == unit[i].st \in {"Pending", "Failed"}
Queued(i) == unit[i].st = "Pending"

\* Pool(processes=...): a task is taken only by a worker process that has
\* no task, and there are `processes` of them.
WorkerFreeAlways(processes) == TRUE
WorkerFree(processes) == Cardinality(Running) < processes

\* A worker takes the next task off the queue (tasks are queued in index
\* order, one per chunk for the unit counts modelled here) and enters `st`.
Dispatch(i, processes, st) ==
    /\ Queued(i)
    /\ \A j \in Units : j < i => unit[j].st # "Pending"
    /\ WorkerFree(processes)
    /\ unit' = [unit EXCEPT ![i].st = st]
    /\ UNCHANGED <<pc, disabled_indexes, mpc, merge_i, dbVars, logVars, splitVars>>

\* The loader of unit i ends: its rows are in its target, its result is
\* recorded (lines 192-227 of import_csv_24_processes, 426-455 of dbtodb).
LoaderExit(i) ==
    /\ pc \in {"load", "db_load"}
    /\ unit[i].st = "Loading"
    /\ \E o \in LoaderOutcomes(Len(unit[i].csv_rows)) :
        LET t == unit[i].target
            rows == Written(unit[i].csv_rows, o)
            present == t = FinalTable \/ t \in DOMAIN stg
        IN /\ present \/ (o.kind = "exit" /\ o.rc = 1 /\ o.written = 0)
           /\ final' = IF t = FinalTable THEN final \cup rows ELSE final
           /\ stg' = IF t \in DOMAIN stg THEN [stg EXCEPT ![t] = @ \cup rows] ELSE stg
           /\ unit' = [unit EXCEPT ![i].st = IF Success(o) THEN "Loaded" ELSE "Failed",
                                   ![i].success = Success(o),
                                   ![i].rows_loaded = RowsLoaded(o),
                                   ![i].exit = ExitOf(o)]
    /\ UNCHANGED <<pc, disabled_indexes, mpc, merge_i, idx_status, txn, logVars, splitVars>>

\* ----------------------------------- import_csv_24_processes: the run

USE_STAGING_TABLES == TRUE
DIRECT_PATH == TRUE

\* The indexes the query of ensure_indexes_usable returns: status UNUSABLE.
Unusable == {n \in IndexNames : idx_status[n] = "UNUSABLE"}

\* ensure_indexes_usable: every index found UNUSABLE gets a REBUILD, which
\* may fail; nothing happens when the connection or the query fails.
EnsureIndexesUsable ==
    /\ pc = "ensure"
    /\ \/ \E fixed \in SUBSET Unusable :
             /\ idx_status' = [n \in IndexNames |-> IF n \in fixed THEN "VALID" ELSE idx_status[n]]
             /\ ensure_log' = {<<n, IF n \in fixed THEN "Rebuilt" ELSE "Warning">> : n \in Unusable}
       \/ /\ idx_status' = idx_status
          /\ ensure_log' = {<<0, "Error checking indexes">>}
    /\ pc' = "disable"
    /\ UNCHANGED <<unit, disabled_indexes, mpc, merge_i, stg, final, txn, merge_log, rebuild_log, dropped, unusable_at_start, rebuild_failed, summary, splitVars>>

\* The indexes disable_indexes goes through: the non-unique ones.
ToDisable(indexes) == LET NonUnique(x) == x[2] # "UNIQUE" IN SelectSeq(indexes, NonUnique)

\* disable_indexes: ALTER INDEX ... UNUSABLE on each non-unique index; the
\* ones whose statement succeeded are returned.
DisableIndexes ==
    /\ pc = "disable"
    /\ IF DIRECT_PATH
       THEN \E indexes \in get_table_indexes : \E ok \in SUBSET Range(ToDisable(indexes)) :
               /\ disabled_indexes' = Filter(ToDisable(indexes), ok)
               /\ idx_status' = [n \in IndexNames |-> IF \E x \in ok : x[1] = n THEN "UNUSABLE" ELSE idx_status[n]]
       ELSE UNCHANGED <<disabled_indexes, idx_status>>
    /\ pc' = "load"
    /\ UNCHANGED <<unit, mpc, merge_i, stg, final, txn, logVars, splitVars>>

\* Pool(processes=min(PARALLEL_FILES, len(csv_files)))
Processes == Min(PARALLEL_FILES, Cardinality(Units))

ImportDispatch(i) == pc = "load" /\ Dispatch(i, Processes, "Staging")

\* target_table: the table the control file names (lines 152-159).
ControlTarget(staging_table) == IF USE_STAGING_TABLES THEN staging_table ELSE FinalTable

\* `return file_idx, False, 0, csv_file, None` when create_staging_table
\* returned None (lines 154-156).
NoSinkGoesOn(u) == [u EXCEPT !.st = "Loading", !.target = FinalTable]
NoSinkResult(u) == [u EXCEPT !.st = "Failed", !.success = FALSE, !.rows_loaded = 0, !.staging_table = NoTable]

\* load_single_file up to subprocess.run (lines 150-192): the staging table
\* is created, the control file written and the loader started.  Without a
\* staging table the unit fails with no sink; an exception after the table
\* was created fails the unit with its sink named.
Allocate(i) ==
    /\ pc = "load"
    /\ unit[i].st = "Staging"
    /\ IF USE_STAGING_TABLES
       THEN \E r \in create_staging_table(stg, i) :
               /\ stg' = r.tables
               /\ IF r.staging_table = NoTable
                  THEN unit' = [unit EXCEPT ![i] = NoSinkResult(unit[i])]
                  ELSE \/ unit' = [unit EXCEPT ![i].st = "Loading", ![i].staging_table = r.staging_table, ![i].target = ControlTarget(r.staging_table)]
                       \/ unit' = [unit EXCEPT ![i].st = "Failed", ![i].staging_table = r.staging_table]
       ELSE /\ stg' = stg
            /\ \/ unit' = [unit EXCEPT ![i].st = "Loading", ![i].target = ControlTarget(NoTable)]
               \/ unit' = [unit EXCEPT ![i].st = "Failed"]
    /\ UNCHANGED <<pc, disabled_indexes, mpc, merge_i, idx_status, final, txn, logVars, splitVars>>

\* results, in unit order (pool.map keeps the order of args_list).
Results == [k \in 1..Cardinality(Units) |-> unit[k - 1]]

\* staging_tables = [r[4] for r in results if r[1] and r[4]]
StagingTablesAny(results) == LET Has(r) == r.staging_table # NoTable IN [k \in 1..Len(SelectSeq(results, Has)) |-> SelectSeq(results, Has)[k].staging_table]
StagingTablesOf(results) == LET Ok(r) == r.success /\ r.staging_table # NoTable IN [k \in 1..Len(SelectSeq(results, Ok)) |-> SelectSeq(results, Ok)[k].staging_table]
staging_tables == StagingTablesOf(Results)

\* total_rows = sum(r[2] for r in results)
RECURSIVE SumRows(_)
SumRows(results) == IF results = <<>> THEN 0 ELSE Head(results).rows_loaded + SumRows(Tail(results))

\* Where main goes after the merge phase, or when there is nothing to merge.
AfterMergeEnd == "done"
AfterMerge == "drop"
AfterLoad == IF USE_STAGING_TABLES /\ staging_tables # <<>> THEN "merge" ELSE "rebuild"

\* pool.map has returned (lines 565-583).
PoolJoin ==
    /\ pc = "load"
    /\ PoolDone
    /\ pc' = AfterLoad
    /\ UNCHANGED <<unit, disabled_indexes, mpc, merge_i, dbVars, logVars, splitVars>>

\* merge_staging_tables: oracledb.connect.  When it raises, the outer
\* handler ends the function with nothing merged.
MergeConnect ==
    /\ pc = "merge"
    /\ mpc = "idle"
    /\ \/ mpc' = "insert" /\ merge_i' = 1 /\ pc' = pc
       \/ mpc' = "closed" /\ merge_i' = merge_i /\ pc' = AfterMerge
    /\ UNCHANGED <<unit, disabled_indexes, dbVars, logVars, splitVars>>

\* INSERT /*+ APPEND */ INTO table SELECT * FROM stg_table: the sink's rows
\* join the open transaction, or the statement raises.
MergeInsert ==
    /\ pc = "merge"
    /\ mpc = "insert"
    /\ merge_i <= Len(staging_tables)
    /\ LET s == staging_tables[merge_i]
       IN \/ /\ s \in DOMAIN stg
             /\ txn' = txn \cup {[sink |-> s, rows |-> stg[s]]}
             /\ mpc' = "commit"
          \/ /\ txn' = txn
             /\ mpc' = "rollback"
    /\ UNCHANGED <<pc, unit, disabled_indexes, merge_i, idx_status, stg, final, logVars, splitVars>>

\* The rows of an open transaction.
TxnRows(t) == UNION {e.rows : e \in t}

\* What connection.commit() leaves: the transaction's rows are in the
\* table and the transaction is over.
CommitKeepOpen(t) == [final |-> final \cup TxnRows(t), txn |-> t]
Commit(t) == [final |-> final \cup TxnRows(t), txn |-> {}]

\* What connection.rollback() leaves of the transaction.
Rollback(t) == {}

\* The merge attempts a transaction's end records.
Attempts(t, outcome) == LET s == CHOOSE q \in [1..Cardinality(t) -> t] : \A a, b \in 1..Cardinality(t) : a # b => q[a] # q[b] IN [k \in 1..Cardinality(t) |-> [sink |-> s[k].sink, rows |-> s[k].rows, outcome |-> outcome]]

\* connection.commit() after the insert (line 404), or its exception.
MergeCommit ==
    /\ pc = "merge"
    /\ mpc = "commit"
    /\ \/ /\ final' = Commit(txn).final
          /\ txn' = Commit(txn).txn
          /\ merge_log' = merge_log \o Attempts(txn, "committed")
          /\ merge_i' = merge_i + 1
          /\ mpc' = "insert"
       \/ /\ mpc' = "rollback"
          /\ UNCHANGED <<final, txn, merge_log, merge_i>>
    /\ UNCHANGED <<pc, unit, disabled_indexes, idx_status, stg, rebuild_log, dropped, idxLogVars, summary, splitVars>>

\* The sink whose merge raised, for the log: the one at merge_i.
FailedAttempt(outcome) == <<[sink |-> staging_tables[merge_i], rows |-> {}, outcome |-> outcome]>>

\* The handler of a failed merge (lines 414-416): connection.rollback() and
\* on to the next sink.  When the rollback itself raises, the outer handler
\* (line 422) ends the function: the connection is abandoned, which ends
\* its transaction, and the sinks left are not attempted.
MergeRollback ==
    /\ pc = "merge"
    /\ mpc = "rollback"
    /\ \/ /\ txn' = Rollback(txn)
          /\ merge_log' = merge_log \o FailedAttempt("rolled back")
          /\ merge_i' = merge_i + 1
          /\ mpc' = "insert"
          /\ pc' = pc
       \/ /\ txn' = {}
          /\ merge_log' = merge_log \o FailedAttempt("abandoned")
          /\ merge_i' = merge_i
          /\ mpc' = "closed"
          /\ pc' = AfterMerge
    /\ UNCHANGED <<unit, disabled_indexes, idx_status, stg, final, rebuild_log, dropped, idxLogVars, summary, splitVars>>

\* merge_count and total_rows of merge_staging_tables (lines 406-407): the
\* merges that committed and the sum of their cursor.rowcount.
merge_count(log) == LET Ok(e) == e.outcome = "committed" IN Len(SelectSeq(log, Ok))
RECURSIVE total_rows(_)
total_rows(log) == IF log = <<>> THEN 0 ELSE (IF Head(log).outcome = "committed" THEN Cardinality(Head(log).rows) ELSE 0) + total_rows(Tail(log))

\* `return merge_count` (line 426), which main prints as tables_merged.
tables_merged == merge_count(merge_log)

\* The loop is over: cursor and connection are closed (lines 418-426).
MergeClose ==
    /\ pc = "merge"
    /\ mpc = "insert"
    /\ merge_i > Len(staging_tables)
    /\ mpc' = "closed"
    /\ txn' = {}
    /\ pc' = AfterMerge
    /\ UNCHANGED <<unit, disabled_indexes, merge_i, idx_status, stg, final, logVars, splitVars>>

\* drop_staging_tables(staging_tables): DROP TABLE ... PURGE for every
\* table of the list; a failed DROP is skipped, a failed connection drops
\* nothing.
DropStagingTables ==
    /\ pc = "drop"
    /\ \E gone \in SUBSET (Range(staging_tables) \cap DOMAIN stg) :
        /\ stg' = [n \in (DOMAIN stg) \ gone |-> stg[n]]
        /\ dropped' = dropped \cup gone
    /\ pc' = "rebuild"
    /\ UNCHANGED <<unit, disabled_indexes, mpc, merge_i, idx_status, final, txn, merge_log, rebuild_log, idxLogVars, summary, splitVars>>

\* The indexes the loop of rebuild_indexes issues a REBUILD for, `ok` being
\* the ones whose statement succeeds: a statement that raises is reported
\* inside the loop and the loop goes on.
AttemptedUntilFailure(indexes, ok) ==
    LET bad == {k \in 1..Len(indexes) : indexes[k] \notin ok}
    IN IF bad = {} THEN Names(indexes) ELSE SubSeq(Names(indexes), 1, CHOOSE k \in bad : \A j \in bad : k <= j)
Attempted(indexes, ok) == Names(indexes)

\* rebuild_indexes(table_name, indexes): ALTER INDEX ... REBUILD for every
\* index of the list; one that fails is skipped, a failed connection
\* rebuilds nothing and is reported as an error of no index (0).  Nothing
\* is done for an empty list.
rebuild_indexes(indexes) ==
    IF indexes # <<>>
    THEN \/ \E ok \in SUBSET Range(indexes) :
              LET done == {x[1] : x \in ok} \cap Range(Attempted(indexes, ok))
              IN /\ idx_status' = [n \in IndexNames |-> IF n \in done THEN "VALID" ELSE idx_status[n]]
                 /\ rebuild_log' = rebuild_log \o Attempted(indexes, ok)
                 /\ rebuild_failed' = rebuild_failed \cup (Range(Attempted(indexes, ok)) \ done)
         \/ /\ rebuild_failed' = rebuild_failed \cup {0}
            /\ UNCHANGED <<idx_status, rebuild_log>>
    ELSE UNCHANGED <<idx_status, rebuild_log, rebuild_failed>>

\* success_count = sum(1 for r in results if r[1])
SuccessCount(results) == LET Ok(r) == r.success IN Len(SelectSeq(results, Ok))

\* failed_files = [r[3] for r in results if not r[1]], a file being named
\* by its unit index.
FailedFiles(results) == LET Bad(i) == ~results[i + 1].success IN SelectSeq([k \in 1..Len(results) |-> k - 1], Bad)

\* s[:n]
FirstN(s, n) == SubSeq(s, 1, Min(n, Len(s)))

\* FINAL SUMMARY (lines 614-629): files processed / files, total rows, and
\* the failed files: the first FailedFilesShown by name, the rest as a count.
FinalSummary(results) ==
    [processed |-> SuccessCount(results),
     of |-> Len(results),
     total_rows |-> SumRows(results),
     failed |-> FirstN(FailedFiles(results), FailedFilesShown),
     more |-> Len(FailedFiles(results)) - Len(FirstN(FailedFiles(results), FailedFilesShown))]

\* The list main hands to rebuild_indexes: what disable_indexes returned
\* (a call without the list would query the table's indexes afresh).
RebuildListFresh == AllIndexes
RebuildList == disabled_indexes

\* Lines 598-603 of main.
RebuildIndexes ==
    /\ pc = "rebuild"
    /\ IF DIRECT_PATH THEN rebuild_indexes(RebuildList) ELSE UNCHANGED <<idx_status, rebuild_log, rebuild_failed>>
    /\ summary' = {FinalSummary(Results)}
    /\ pc' = "done"
    /\ UNCHANGED <<unit, disabled_indexes, mpc, merge_i, stg, final, txn, merge_log, dropped, unusable_at_start, ensure_log, splitVars>>

\* ------------------------------------------- dbtodb: transfer_table

\* The indexes dbtodb's disable_indexes goes through: all of them.
DbToDisable(indexes) == indexes

\* dbtodb.disable_indexes (lines 259-284), called when DIRECT_PATH.
DbDisableIndexes ==
    /\ pc = "db_disable"
    /\ IF DIRECT_PATH
       THEN \E indexes \in get_table_indexes : \E ok \in SUBSET Range(DbToDisable(indexes)) :
               /\ disabled_indexes' = Filter(DbToDisable(indexes), ok)
               /\ idx_status' = [n \in IndexNames |-> IF \E x \in ok : x[1] = n THEN "UNUSABLE" ELSE idx_status[n]]
       ELSE UNCHANGED <<disabled_indexes, idx_status>>
    /\ pc' = "db_split"
    /\ UNCHANGED <<unit, mpc, merge_i, stg, final, txn, logVars, splitVars>>

\* `INTO TABLE {DEST_SCHEMA}.{table_name}` of dbtodb.create_control_file.
DbControlTarget == FinalTable

\* The rows of chunk file c, tagged with the unit that loads them.
ChunkRows(c) == [k \in 1..Len(chunk_files[c].lines) |-> <<c - 1, chunk_files[c].lines[k]>>]

\* load_csv_parallel after split_csv (lines 467-481): one control file and
\* one task per chunk file.
DbMakeUnits ==
    /\ pc = "db_split"
    /\ spc = "done"
    /\ unit' = [i \in 0..(Len(chunk_files) - 1) |-> [NewUnit(ChunkRows(i + 1)) EXCEPT !.target = DbControlTarget]]
    /\ pc' = "db_load"
    /\ UNCHANGED <<disabled_indexes, mpc, merge_i, dbVars, logVars, splitVars>>

\* Pool(processes=PARALLEL_CHUNKS): the worker starts its stagger sleep.
DbDispatch(i) == pc = "db_load" /\ Dispatch(i, PARALLEL_CHUNKS, "Stagger")

\* time.sleep(chunk_id * STAGGER_DELAY): the time the worker lets pass
\* between taking the unit and starting its loader, in units of
\* STAGGER_DELAY.
StaggerSleep(chunk_id) == chunk_id

\* run_sqlldr after time.sleep (lines 406-427): the loader is started, or
\* subprocess.run raises and the unit fails with 0 rows.
DbLoaderStart(i) ==
    /\ pc = "db_load"
    /\ unit[i].st = "Stagger"
    /\ \/ unit' = [unit EXCEPT ![i].st = "Loading", ![i].waited = StaggerSleep(i)]
       \/ unit' = [unit EXCEPT ![i].st = "Failed", ![i].waited = StaggerSleep(i)]
    /\ UNCHANGED <<pc, disabled_indexes, mpc, merge_i, dbVars, logVars, splitVars>>

\* pool.map has returned (lines 484-497); transfer_table goes on to the
\* rebuild.
DbPoolJoin ==
    /\ pc = "db_load"
    /\ PoolDone
    /\ pc' = "db_rebuild"
    /\ UNCHANGED <<unit, disabled_indexes, mpc, merge_i, dbVars, logVars, splitVars>>

\* What load_csv_parallel prints and returns (lines 489-497): chunks
\* succeeded / chunks and the total rows; failed chunks are not named.
DbSummary(results) == [processed |-> SuccessCount(results), of |-> Len(results), total_rows |-> SumRows(results), failed |-> <<>>, more |-> 0]

\* Lines 537-551 of transfer_table.
DbRebuildIndexes ==
    /\ pc = "db_rebuild"
    /\ rebuild_indexes(RebuildList)
    /\ summary' = {DbSummary(Results)}
    /\ pc' = "db_done"
    /\ UNCHANGED <<unit, disabled_indexes, mpc, merge_i, stg, final, txn, merge_log, dropped, unusable_at_start, ensure_log, splitVars>>

\* ---------------------------------------------------- specifications

\* Staging tables a previous run over m files may have left when it was
\* aborted before its drop, each with a row of that run.
StaleTables(m) == [n \in {StagingName(i) : i \in 0..(m - 1)} |-> {<<-1, 0>>}]

\* The destination before a run: unique indexes are usable, non-unique
\* ones may be UNUSABLE from an aborted run.
InitRun ==
    /\ idx_status \in {f \in [IndexNames -> {"VALID", "UNUSABLE"}] : \A k \in 1..NumUnique : f[k] = "VALID"}
    /\ final = {}
    /\ txn = {}
    /\ disabled_indexes = <<>>
    /\ mpc = "idle"
    /\ merge_i = 0
    /\ merge_log = <<>>
    /\ rebuild_log = <<>>
    /\ dropped = {}
    /\ unusable_at_start = {n \in IndexNames : idx_status[n] = "UNUSABLE"}
    /\ ensure_log = {}
    /\ rebuild_failed = {}
    /\ summary = {}

\* import_csv_24_processes.main with 1..MaxFiles CSV files (an empty
\* directory returns at line 504).
InitImport ==
    /\ csv_file = <<0>>
    /\ num_chunks = 1
    /\ SplitInit
    /\ NoPlan
    /\ InitRun
    /\ pc = "ensure"
    /\ \E n \in 1..MaxFiles : unit = [i \in 0..(n - 1) |-> NewUnit([k \in 1..RowsPerFile |-> <<i, k>>])]
    /\ \E m \in 0..MaxFiles : stg = StaleTables(m)

\* dbtodb.transfer_table on an extract of 1..MaxLines rows (no rows
\* returns at line 519).
InitDb ==
    /\ csv_file \in {CsvFile(n) : n \in 1..MaxLines}
    /\ num_chunks = PARALLEL_CHUNKS
    /\ SplitInit
    /\ NoPlan
    /\ InitRun
    /\ pc = "db_disable"
    /\ unit = <<>>
    /\ stg = <<>>

Init == InitImport \/ InitDb

Next ==
    \/ EnsureIndexesUsable
    \/ DisableIndexes
    \/ \E i \in Units : ImportDispatch(i)
    \/ \E i \in Units : Allocate(i)
    \/ \E i \in Units : LoaderExit(i)
    \/ PoolJoin
    \/ MergeConnect
    \/ MergeInsert
    \/ MergeCommit
    \/ MergeRollback
    \/ MergeClose
    \/ DropStagingTables
    \/ RebuildIndexes
    \/ DbDisableIndexes
    \/ SplitBegin
    \/ SplitLine
    \/ SplitEnd
    \/ DbMakeUnits
    \/ \E i \in Units : DbDispatch(i)
    \/ \E i \in Units : DbLoaderStart(i)
    \/ DbPoolJoin
    \/ DbRebuildIndexes

Spec == Init /\ [][Next]_vars

\* A unit of a run whose load phase is over, loaded (with no rows) or
\* failed.
DoneUnit(i, ok) == [NewUnit(<<>>) EXCEPT !.st = IF ok THEN "Loaded" ELSE "Failed", !.success = ok, !.staging_table = StagingName(i), !.target = StagingName(i), !.exit = IF ok THEN "rc2" ELSE "rc1"]

\* import_csv_24_processes.main of 1..MaxSummaryUnits files at line 598:
\* any of the units failed, the merge could not connect, the staging
\* tables are dropped and no index was disabled.
InitSummary ==
    /\ csv_file = <<0>>
    /\ num_chunks = 1
    /\ SplitInit
    /\ NoPlan
    /\ pc = "rebuild"
    /\ \E n \in 1..MaxSummaryUnits : \E ok \in [0..(n - 1) -> BOOLEAN] : unit = [i \in 0..(n - 1) |-> DoneUnit(i, ok[i])]
    /\ idx_status = [n \in IndexNames |-> "VALID"]
    /\ stg = <<>>
    /\ final = {}
    /\ txn = {}
    /\ disabled_indexes = <<>>
    /\ mpc = IF staging_tables = <<>> THEN "idle" ELSE "closed"
    /\ merge_i = 0
    /\ merge_log = <<>>
    /\ rebuild_log = <<>>
    /\ dropped = Range(staging_tables)
    /\ unusable_at_start = {}
    /\ ensure_log = {}
    /\ rebuild_failed = {}
    /\ summary = {}

NextSummary == RebuildIndexes

SpecSummary == InitSummary /\ [][NextSummary]_vars

\* The main process and the pool workers keep running: a step that can be
\* taken is taken (every loader ends, by itself or by its timeout).
FairSpec == Init /\ [][Next]_vars /\ WF_vars(Next)

\* ----------------------------------------------------------------- par.main

\* partitions = [("FULL_TABLE", None)]
FullTable == [name |-> 0, num_rows |-> 0]

\* What get_partitions fetches for a table of t partitions, ordered by
\* partition_position: partition k is named k.
Partitions(t) == [k \in 1..t |-> [name |-> k, num_rows |-> 1]]

\* s[a:b]
Slice(s, a, b) == SubSeq(s, a + 1, Min(b, Len(s)))

\* part_size = (total_partitions + 3) // 4
part_size_floor(total) == total \div 4
part_size(total) == (total + 3) \div 4

\* The loop of lines 221-226.
PartRanges(total) ==
    LET all == [i \in 1..4 |-> <<(i - 1) * part_size(total), Min(i * part_size(total), total)>>]
        Kept(r) == r[1] < total
    IN SelectSeq(all, Kept)

\* args_list of part n (lines 266-267, 293-296): each selected partition with
\* start_idx + i + 1 as its partition_num.
args_list(n) ==
    LET start_idx == part_ranges[n][1]
        selected_partitions == Slice(partitions, start_idx, part_ranges[n][2])
    IN [j \in 1..Len(selected_partitions) |-> [partition_name |-> selected_partitions[j].name, partition_num |-> start_idx + (j - 1) + 1]]

\* extract_partition: the partition is written to the file numbered
\* partition_num; the result names the partition and says whether the
\* extraction went through.
extract_partition(args, ok) == [partition_name |-> args.partition_name, success |-> ok, output_file |-> args.partition_num]

\* The summary of lines 316-330: every failed partition is named.
ParSummaryOf(results) ==
    LET Bad(r) == ~r.success
    IN [processed |-> SuccessCount(results),
        of |-> Len(results),
        total_rows |-> SuccessCount(results),
        failed |-> [k \in 1..Len(SelectSeq(results, Bad)) |-> SelectSeq(results, Bad)[k].partition_name],
        more |-> 0]

\* get_partitions (line 208): the list of partitions, possibly empty; the
\* function has no handler, so a failed query ends the run.
ParGetPartitions ==
    /\ pc = "par_start"
    /\ \/ \E t \in 0..MaxPartitions : partitions' = Partitions(t) /\ pc' = "par_plan"
       \/ partitions' = partitions /\ pc' = "par_failed"
    /\ UNCHANGED <<chunk_sizes, part_ranges, part_num, extracts, csv_file, num_chunks, spc, total_lines, lines_per_chunk, infile, header, chunk_num, current_lines, current_file, chunk_files, auxVars, unit, disabled_indexes, mpc, merge_i, dbVars, logVars>>

\* Lines 210-226: an empty list is replaced by the one stand-in entry, then
\* the part ranges are computed.
ParPlan ==
    /\ pc = "par_plan"
    /\ partitions' = IF partitions = <<>> THEN <<FullTable>> ELSE partitions
    /\ part_ranges' = PartRanges(Len(partitions'))
    /\ pc' = "par_choose"
    /\ UNCHANGED <<chunk_sizes, part_num, extracts, csv_file, num_chunks, spc, total_lines, lines_per_chunk, infile, header, chunk_num, current_lines, current_file, chunk_files, auxVars, unit, disabled_indexes, mpc, merge_i, dbVars, logVars>>

\* Lines 249-290: the operator names a part and confirms, or gives up.
ParChoose ==
    /\ pc = "par_choose"
    /\ \/ \E n \in 1..Len(part_ranges) : part_num' = n /\ pc' = "par_extract"
       \/ part_num' = part_num /\ pc' = "par_aborted"
    /\ UNCHANGED <<chunk_sizes, partitions, part_ranges, extracts, csv_file, num_chunks, spc, total_lines, lines_per_chunk, infile, header, chunk_num, current_lines, current_file, chunk_files, auxVars, unit, disabled_indexes, mpc, merge_i, dbVars, logVars>>

\* Lines 293-307: pool.map(extract_partition, args_list) has returned.
ParExtract ==
    /\ pc = "par_extract"
    /\ \E ok \in [1..Len(args_list(part_num)) -> BOOLEAN] : extracts' = [j \in 1..Len(args_list(part_num)) |-> extract_partition(args_list(part_num)[j], ok[j])]
    /\ pc' = "par_summary"
    /\ UNCHANGED <<chunk_sizes, partitions, part_ranges, part_num, csv_file, num_chunks, spc, total_lines, lines_per_chunk, infile, header, chunk_num, current_lines, current_file, chunk_files, auxVars, unit, disabled_indexes, mpc, merge_i, dbVars, logVars>>

\* Lines 309-358.
ParSummary ==
    /\ pc = "par_summary"
    /\ summary' = {ParSummaryOf(extracts)}
    /\ pc' = "par_done"
    /\ UNCHANGED <<splitVars, unit, disabled_indexes, mpc, merge_i, dbVars, merge_log, rebuild_log, dropped, idxLogVars>>

\* par.main before get_partitions.
InitPar ==
    /\ csv_file = <<0>>
    /\ num_chunks = 1
    /\ SplitInit
    /\ NoPlan
    /\ pc = "par_start"
    /\ unit = <<>>
    /\ idx_status = <<>>
    /\ stg = <<>>
    /\ final = {}
    /\ txn = {}
    /\ disabled_indexes = <<>>
    /\ mpc = "idle"
    /\ merge_i = 0
    /\ merge_log = <<>>
    /\ rebuild_log = <<>>
    /\ dropped = {}
    /\ unusable_at_start = {}
    /\ ensure_log = {}
    /\ rebuild_failed = {}
    /\ summary = {}

NextPar ==
    \/ ParGetPartitions
    \/ ParPlan
    \/ ParChoose
    \/ ParExtract
    \/ ParSummary

SpecPar == InitPar /\ [][NextPar]_vars

\* ------------------------------------------------------------ dbtodb.main

\* No run of import_csv_24_processes.main or transfer_table: what the run
\* variables other than pc and unit hold then.
IdleRun ==
    /\ idx_status = <<>>
    /\ stg = <<>>
    /\ final = {}
    /\ txn = {}
    /\ disabled_indexes = <<>>
    /\ mpc = "idle"
    /\ merge_i = 0
    /\ merge_log = <<>>
    /\ rebuild_log = <<>>
    /\ dropped = {}
    /\ unusable_at_start = {}
    /\ ensure_log = {}
    /\ rebuild_failed = {}
    /\ summary = {}

\* What run_sqlldr returned for a chunk: (success, rows_loaded); a failed
\* loader may have a row count in its log.
ChunkResult(ok, n) == [NewUnit(<<>>) EXCEPT !.st = IF ok THEN "Loaded" ELSE "Failed", !.success = ok, !.rows_loaded = n, !.target = FinalTable, !.exit = IF ok THEN "rc0" ELSE "rc1"]

\* The result list of pool.map over the units u.
ResultsOf(u) == [k \in 1..Cardinality(DOMAIN u) |-> u[k - 1]]

\* return success_count == len(chunk_files), total_rows
load_csv_parallel_any(results) == [success |-> SuccessCount(results) > 0, rows |-> SumRows(results)]
load_csv_parallel(results) == [success |-> SuccessCount(results) = Len(results), rows |-> SumRows(results)]

\* What transfer_table returns: (False, 0) when nothing was extracted (no
\* chunk is made then), otherwise what load_csv_parallel returned.
transfer_table(u) == IF u = <<>> THEN [success |-> FALSE, rows |-> 0] ELSE load_csv_parallel(ResultsOf(u))

\* One iteration of `for table_name in TABLES_TO_TRANSFER` (lines 610-612):
\* the table is transferred, its chunks ending each with a result, and its
\* result is appended.
DbTransferTable ==
    /\ pc = "tables"
    /\ Len(table_results) < Len(tables_to_transfer)
    /\ \E n \in 0..PARALLEL_CHUNKS : \E ok \in [0..(n - 1) -> BOOLEAN] : \E rows \in [0..(n - 1) -> 0..1] :
        /\ unit' = [i \in 0..(n - 1) |-> ChunkResult(ok[i], rows[i])]
        /\ table_results' = Append(table_results, [table_name |-> tables_to_transfer[Len(table_results) + 1], success |-> transfer_table(unit').success, rows |-> transfer_table(unit').rows])
    /\ UNCHANGED <<pc, tables_to_transfer, directory, csv_files, paths, first_line, header_parts, chunk_sizes, partitions, part_ranges, part_num, extracts, csv_file, num_chunks, spc, total_lines, lines_per_chunk, infile, header, chunk_num, current_lines, current_file, chunk_files, disabled_indexes, mpc, merge_i, dbVars, logVars>>

\* total_rows of main: `if success: total_rows += rows`
RECURSIVE SumSucceeded(_)
SumSucceeded(results) == IF results = <<>> THEN 0 ELSE (IF Head(results).success THEN Head(results).rows ELSE 0) + SumSucceeded(Tail(results))

\* TRANSFER COMPLETE (lines 617-635): a line per table with its status,
\* the tables succeeded and the total rows.
TransferSummary(results) ==
    LET Bad(r) == ~r.success
    IN [processed |-> SuccessCount(results),
        of |-> Len(tables_to_transfer),
        total_rows |-> SumSucceeded(results),
        failed |-> [k \in 1..Len(SelectSeq(results, Bad)) |-> SelectSeq(results, Bad)[k].table_name],
        more |-> 0]

\* The loop is over: the summary is printed.
DbMainSummary ==
    /\ pc = "tables"
    /\ Len(table_results) = Len(tables_to_transfer)
    /\ summary' = {TransferSummary(table_results)}
    /\ pc' = "tables_done"
    /\ UNCHANGED <<splitVars, unit, disabled_indexes, mpc, merge_i, dbVars, merge_log, rebuild_log, dropped, idxLogVars>>

\* dbtodb.main at line 608, with 1..MaxTables tables to transfer.
InitTables ==
    /\ csv_file = <<0>>
    /\ num_chunks = PARALLEL_CHUNKS
    /\ SplitInit
    /\ chunk_sizes = <<>>
    /\ partitions = <<>>
    /\ part_ranges = <<>>
    /\ part_num = 0
    /\ extracts = <<>>
    /\ tables_to_transfer \in {[k \in 1..n |-> k] : n \in 1..MaxTables}
    /\ table_results = <<>>
    /\ directory = {}
    /\ csv_files = <<>>
    /\ paths = <<>>
    /\ first_line = <<>>
    /\ header_parts = <<>>
    /\ pc = "tables"
    /\ unit = <<>>
    /\ IdleRun

NextTables == DbTransferTable \/ DbMainSummary

SpecTables == InitTables /\ [][NextTables]_vars

\* ------------------------- import_csv_24_processes: the files and their paths

\* The names a file of csv_dir may have: a stem and the extension, in the
\* case the file system keeps.
FileNames == [stem : 1..MaxStems, ext : {"csv", "CSV"}]

\* glob.glob(os.path.join(csv_dir, pattern)) on a case-sensitive file
\* system: the files whose extension is the pattern's.
Glob(dir, ext) == {f \in dir : f.ext = ext}

\* The order of path strings that differ in stem or in the case of the
\* extension: by stem, upper case before lower case.
SortKey(f) == 2 * f.stem + (IF f.ext = "CSV" THEN 0 ELSE 1)

\* sorted(files)
Sorted(files) == CHOOSE q \in [1..Cardinality(files) -> files] : \A a, b \in 1..Cardinality(files) : a < b => SortKey(q[a]) < SortKey(q[b])

\* os.path.splitext(os.path.basename(csv_file))[0]
Base(f) == f.stem

\* The files load_single_file and create_control_file name for a CSV file:
\* {base}.ctl, {base}.log, {base}.bad in temp_dir.
UnitPathsOf(f) == [ctl_file |-> <<Base(f), "ctl">>, log_file |-> <<Base(f), "log">>, bad_file |-> <<Base(f), "bad">>]

\* Lines 493-504 of main: the CSV files of the directory, sorted; none
\* ends the run.
MainFindFiles ==
    /\ pc = "find"
    /\ csv_files' = Sorted(Glob(directory, "csv") \cup Glob(directory, "CSV"))
    /\ pc' = IF csv_files' = <<>> THEN "no_files" ELSE "paths"
    /\ UNCHANGED <<directory, paths, tables_to_transfer, table_results, first_line, header_parts, chunk_sizes, partitions, part_ranges, part_num, extracts, csv_file, num_chunks, spc, total_lines, lines_per_chunk, infile, header, chunk_num, current_lines, current_file, chunk_files, unit, disabled_indexes, mpc, merge_i, dbVars, logVars>>

\* Lines 161-168 of load_single_file for the next file of the list: its
\* control file is written and its log file named.
UnitPaths ==
    /\ pc = "paths"
    /\ Len(paths) < Len(csv_files)
    /\ paths' = Append(paths, UnitPathsOf(csv_files[Len(paths) + 1]))
    /\ UNCHANGED <<pc, directory, csv_files, tables_to_transfer, table_results, first_line, header_parts, chunk_sizes, partitions, part_ranges, part_num, extracts, csv_file, num_chunks, spc, total_lines, lines_per_chunk, infile, header, chunk_num, current_lines, current_file, chunk_files, unit, disabled_indexes, mpc, merge_i, dbVars, logVars>>

\* import_csv_24_processes.main at line 493, csv_dir holding any files.
InitPaths ==
    /\ csv_file = <<0>>
    /\ num_chunks = 1
    /\ SplitInit
    /\ chunk_sizes = <<>>
    /\ partitions = <<>>
    /\ part_ranges = <<>>
    /\ part_num = 0
    /\ extracts = <<>>
    /\ tables_to_transfer = <<>>
    /\ table_results = <<>>
    /\ directory \in SUBSET FileNames
    /\ csv_files = <<>>
    /\ paths = <<>>
    /\ first_line = <<>>
    /\ header_parts = <<>>
    /\ pc = "find"
    /\ unit = <<>>
    /\ IdleRun

NextPaths == MainFindFiles \/ UnitPaths

SpecPaths == InitPaths /\ [][NextPaths]_vars

\* ---------------------------- import_csv_24_processes.get_csv_header

\* A field is a sequence of characters.
Digits == {"0", "1", "2", "3", "4", "5", "6", "7", "8", "9"}

\* The fields looked at: a digit, the point, the minus sign and a letter
\* (e, the letter that stands before the exponent of a number).
FieldChars == {"1", ".", "-", "e"}
Fields == UNION {[1..n -> FieldChars] : n \in 0..MaxFieldLen}

\* s.replace(ch, '')
Replace(s, ch) == LET Other(c) == c # ch IN SelectSeq(s, Other)

\* s.isdigit(): at least one character, and every character a digit.
isdigit(s) == s # <<>> /\ \A k \in 1..Len(s) : s[k] \in Digits

\* get_csv_header on a file whose first line starts with `field`: parts
\* (here its first element) when the field, points and minus signs taken
\* out, is not all digits; None (the empty sequence) otherwise.
get_csv_header(field) ==
    LET parts == <<field>>
    IN IF parts # <<>> /\ ~isdigit(Replace(Replace(parts[1], "."), "-")) THEN parts ELSE <<>>

\* load_single_file line 162.
GetCsvHeader ==
    /\ pc = "header"
    /\ header_parts' = get_csv_header(first_line)
    /\ pc' = "header_done"
    /\ UNCHANGED <<first_line, directory, csv_files, paths, tables_to_transfer, table_results, chunk_sizes, partitions, part_ranges, part_num, extracts, csv_file, num_chunks, spc, total_lines, lines_per_chunk, infile, header, chunk_num, current_lines, current_file, chunk_files, unit, disabled_indexes, mpc, merge_i, dbVars, logVars>>

\* A CSV file whose first line starts with any field of up to MaxFieldLen
\* characters.
InitHeader ==
    /\ csv_file = <<0>>
    /\ num_chunks = 1
    /\ SplitInit
    /\ chunk_sizes = <<>>
    /\ partitions = <<>>
    /\ part_ranges = <<>>
    /\ part_num = 0
    /\ extracts = <<>>
    /\ tables_to_transfer = <<>>
    /\ table_results = <<>>
    /\ directory = {}
    /\ csv_files = <<>>
    /\ paths = <<>>
    /\ first_line \in Fields
    /\ header_parts = <<>>
    /\ pc = "header"
    /\ unit = <<>>
    /\ IdleRun

NextHeader == GetCsvHeader

SpecHeader == InitHeader /\ [][NextHeader]_vars

\* What an exception that leaves main does to the database session it
\* interrupts: the connection is abandoned and its transaction with it.
Abandon ==
    /\ txn' = {}
    /\ mpc' = IF mpc \in {"idle", "closed"} THEN mpc ELSE "closed"

\* Ctrl-C (KeyboardInterrupt, which no `except Exception` catches) while
\* pool.map is waiting: the `with Pool(...)` block is left, which
\* terminates the workers, and the exception leaves main, no statement
\* after the block being run.  Neither program has a handler, a `finally`
\* or a signal handler.
InterruptLoad ==
    /\ pc \in {"load", "db_load"}
    /\ pc' = "interrupted"
    /\ Abandon
    /\ UNCHANGED <<unit, disabled_indexes, merge_i, idx_status, stg, final, logVars, splitVars>>

\* The same, or any unhandled exception, at another statement of the run.
Abort ==
    /\ pc \in {"ensure", "disable", "merge", "drop", "rebuild", "db_disable", "db_split", "db_rebuild"}
    /\ pc' = "aborted"
    /\ Abandon
    /\ UNCHANGED <<unit, disabled_indexes, merge_i, idx_status, stg, final, logVars, splitVars>>

NextInterrupt == Next \/ InterruptLoad \/ Abort

SpecInterrupt == Init /\ [][NextInterrupt]_vars

\* The rows the destination table holds from an earlier load.
OldRows == {<<-1, 1>>}

\* TRUNCATE TABLE through truncate_table / truncate_dest_table: the table
\* is emptied and True returned, or the handler prints the error and
\* returns False.
truncate_table(rows) == {[ok |-> TRUE, rows |-> {}], [ok |-> FALSE, rows |-> rows]}

\* Lines 529-533 of import_csv_24_processes.main, the operator having
\* answered 'y': truncate_table is called and its result is not used.
TruncateTable ==
    /\ pc = "truncate"
    /\ \E r \in truncate_table(final) : final' = r.rows
    /\ pc' = "ensure"
    /\ UNCHANGED <<unit, disabled_indexes, mpc, merge_i, idx_status, stg, txn, logVars, splitVars>>

\* Lines 525-526 of dbtodb.transfer_table with truncate=True.
DbTruncateTable ==
    /\ pc = "db_truncate"
    /\ \E r \in truncate_table(final) : final' = r.rows
    /\ pc' = "db_disable"
    /\ UNCHANGED <<unit, disabled_indexes, mpc, merge_i, idx_status, stg, txn, logVars, splitVars>>

\* A run for which truncation was requested, before the truncate: the
\* destination holds rows of an earlier load.
InitTruncate ==
    /\ SplitInit
    /\ NoPlan
    /\ idx_status \in {f \in [IndexNames -> {"VALID", "UNUSABLE"}] : \A k \in 1..NumUnique : f[k] = "VALID"}
    /\ final = OldRows
    /\ txn = {}
    /\ disabled_indexes = <<>>
    /\ mpc = "idle"
    /\ merge_i = 0
    /\ merge_log = <<>>
    /\ rebuild_log = <<>>
    /\ dropped = {}
    /\ unusable_at_start = {n \in IndexNames : idx_status[n] = "UNUSABLE"}
    /\ ensure_log = {}
    /\ rebuild_failed = {}
    /\ summary = {}
    /\ \/ /\ pc = "truncate"
          /\ csv_file = <<0>>
          /\ num_chunks = 1
          /\ \E n \in 1..MaxFiles : unit = [i \in 0..(n - 1) |-> NewUnit([k \in 1..RowsPerFile |-> <<i, k>>])]
          /\ \E m \in 0..MaxFiles : stg = StaleTables(m)
       \/ /\ pc = "db_truncate"
          /\ csv_file \in {CsvFile(n) : n \in 1..MaxLines}
          /\ num_chunks = PARALLEL_CHUNKS
          /\ unit = <<>>
          /\ stg = <<>>

NextTruncate == Next \/ TruncateTable \/ DbTruncateTable

SpecTruncate == InitTruncate /\ [][NextTruncate]_vars

\* ------------------------------------------------------------- claims

RECURSIVE Concat(_)
Concat(files) == IF files = <<>> THEN <<>> ELSE Head(files).lines \o Concat(Tail(files))

\* The data rows of the input file: everything after its header line.
DataRows == Tail(csv_file)

\* C4: once split_csv has returned, the chunk files concatenated in chunk
\* order are exactly the data rows of the input, in order (so every data row
\* is in exactly one chunk), and the header line is in no chunk.
C4_ChunksPartitionRows ==
    spc = "done" =>
        /\ Concat(chunk_files) = DataRows
        /\ \A c \in 1..Len(chunk_files) : \A j \in 1..Len(chunk_files[c].lines) : chunk_files[c].lines[j] # header
        /\ header = csv_file[1]

\* A split of 5 rows into 2 chunks has returned: rows sit in two chunks.
C4_Witness ==
    /\ spc = "done"
    /\ Len(csv_file) = 6
    /\ num_chunks = 2
    /\ Len(chunk_files) = 2

\* The ceiling of n / k, stated without the code's formula.
CeilDiv(n, k) == CHOOSE s \in 0..n : s * k >= n /\ (s = 0 \/ (s - 1) * k < n)

RECURSIVE SumSizes(_)
SumSizes(files) == IF files = <<>> THEN 0 ELSE Len(Head(files).lines) + SumSizes(Tail(files))

\* C5: once split_csv has returned, the chunk sizes sum to the data-row
\* count; every chunk but the last holds exactly size = ceil(N / K) rows,
\* chunk i being rows [i*size, (i+1)*size); the last chunk holds the
\* remainder, at least one row and at most size.
C5_ChunkSizes ==
    spc = "done" =>
        LET n == Len(csv_file) - 1
            size == CeilDiv(n, num_chunks)
            m == Len(chunk_files)
        IN /\ SumSizes(chunk_files) = n
           /\ \A c \in 1..m : chunk_files[c].num = c - 1
           /\ \A c \in 1..(m - 1) : chunk_files[c].lines = [j \in 1..size |-> (c - 1) * size + j]
           /\ m > 0 => chunk_files[m].lines = [j \in 1..(n - (m - 1) * size) |-> (m - 1) * size + j]
           /\ m > 0 => Len(chunk_files[m].lines) \in 1..size

\* 5 rows split 2 ways: sizes 3 and 2, the last chunk holds the remainder.
C5_Witness ==
    /\ spc = "done"
    /\ Len(csv_file) = 6
    /\ num_chunks = 2
    /\ Len(chunk_files) = 2
    /\ Len(chunk_files[1].lines) = 3
    /\ Len(chunk_files[2].lines) = 2

\* ---- the staged run (import_csv_24_processes) and the chunked run (dbtodb)

\* The merge attempts recorded with a given outcome.
Merged(outcome) == {merge_log[k] : k \in {q \in 1..Len(merge_log) : merge_log[q].outcome = outcome}}

\* C1: a staging table is dropped only after its own merge into the final
\* table has committed: a table whose merge was rolled back, abandoned or
\* never attempted is not among the tables drop_staging_tables dropped.
C1_DropOnlyAfterCommit == \A s \in dropped : \E e \in Merged("committed") : e.sink = s

\* C2: in every state of a run every UNIQUE index is usable, and no unique
\* index is among the indexes disable_indexes made unusable.
C2_UniqueAlwaysUsable ==
    /\ \A k \in 1..NumUnique : idx_status[k] = "VALID"
    /\ \A x \in Range(disabled_indexes) : x[2] # "UNIQUE"

\* The rows in the destination table, committed or in the open transaction.
FinalRows == final \cup TxnRows(txn)

\* C3: the destination table never holds a row written by a unit whose
\* load result is failure.
C3_NoFailedRowsInFinal == \A r \in FinalRows : r[1] \in Units => unit[r[1]].st # "Failed"

\* C6: a merge has begun (connection opened, insert issued) only when every
\* unit has a terminal load result, and an index rebuild has been issued
\* only when merge_staging_tables is over (or had nothing to merge) with no
\* insert left uncommitted.
C6_PhaseOrdering ==
    /\ (mpc # "idle" \/ merge_log # <<>> \/ txn # {}) => \A i \in Units : unit[i].st \in {"Loaded", "Failed"}
    /\ rebuild_log # <<>> =>
        /\ txn = {}
        /\ mpc \in {"idle", "closed"}
        /\ mpc = "idle" => staging_tables = <<>>

\* A run with a failed and a merged unit has issued its rebuilds.
C6_Witness ==
    /\ rebuild_log # <<>>
    /\ Merged("committed") # {}
    /\ \E i \in Units : unit[i].st = "Failed"

\* C7: at most one sink's rows are uncommitted in the destination table,
\* and the next insert is issued only with no insert left uncommitted.
C7_OneSinkAtATime ==
    /\ Cardinality(txn) <= 1
    /\ mpc = "insert" => txn = {}

\* The first sink is committed and the insert of the second is uncommitted.
C7_Witness ==
    /\ Len(merge_log) = 1
    /\ merge_log[1].outcome = "committed"
    /\ Cardinality(txn) = 1
    /\ \A e \in txn : e.sink # merge_log[1].sink

\* C8: once merge_staging_tables is over, if the merge of a sink failed
\* every sink of the list has still been attempted, and the rows added to
\* the destination table are exactly the rows of the sinks whose merge
\* committed.
C8_PartialMerge ==
    mpc = "closed" =>
        /\ Len(merge_log) > Cardinality(Merged("committed")) => \A s \in Range(staging_tables) : \E k \in 1..Len(merge_log) : merge_log[k].sink = s
        /\ final = UNION {e.rows : e \in Merged("committed")}

\* The staging sink unit i recorded, as the database holds it.
Sink(i) == IF unit[i].staging_table \in DOMAIN stg THEN [exists |-> TRUE, rows |-> stg[unit[i].staging_table]] ELSE [exists |-> FALSE, rows |-> {}]

\* The rows of unit i in the destination table.
OwnRows(i) == {r \in final : r[1] = i}

\* A step of unit j leaves every other unit as it was: its state, load
\* result, rows-loaded count, staging sink and rows in the destination.
Isolated(j) == \A i \in Units \ {j} : unit'[i] = unit[i] /\ Sink(i)' = Sink(i) /\ OwnRows(i)' = OwnRows(i)

FinalWriters == {<<"loader", i>> : i \in FinalLoaders} \cup {<<"merge", 0>> : e \in txn}

\* C10: at no point do two writers write into the destination table.
C10_SingleWriter == Cardinality(FinalWriters) <= 1

\* Distinct unit indexes get distinct staging table names.
NamesDistinct == \A a, b \in 0..MaxUnitIndex : a # b => StagingName(a) # StagingName(b)

C12_IdempotentAllocation ==
    /\ [](\A i \in Units :
            /\ \E r \in create_staging_table(stg, i) : r.fault = "none"
            /\ \A r \in create_staging_table(stg, i) : r.fault = "none" =>
                    /\ r.staging_table = StagingName(i)
                    /\ DOMAIN r.tables = (DOMAIN stg) \cup {StagingName(i)}
                    /\ r.tables[StagingName(i)] = {}
                    /\ \A n \in (DOMAIN stg) \ {StagingName(i)} : r.tables[n] = stg[n])
    /\ [][\A i \in Units : (unit[i].staging_table = NoTable /\ unit'[i].staging_table # NoTable) =>
                (unit'[i].staging_table \in DOMAIN stg' /\ stg'[unit'[i].staging_table] = {})]_vars

\* A unit loads into its empty new sink while the stale table of a later
\* unit still holds its row: the run started with stale tables for both.
C12_Witness ==
    \E i, j \in Units :
        /\ i < j
        /\ unit[i].st = "Loading"
        /\ unit[i].staging_table = StagingName(i)
        /\ stg[StagingName(i)] = {}
        /\ StagingName(j) \in DOMAIN stg
        /\ <<-1, 0>> \in stg[StagingName(j)]

\* No rebuild of the restore phase failed: the connection was made and no
\* REBUILD statement raised.
NoRebuildFailed == rebuild_failed = {} /\ (disabled_indexes # <<>> => rebuild_log # <<>>)

\* C13: the indexes rebuilt in the restore phase are exactly the ones
\* disable_indexes recorded in this run (none before the restore, and none
\* when its connection fails); disable_indexes records every index it turns
\* UNUSABLE and only indexes that are UNUSABLE when it returns; and at the
\* end of a run in which no rebuild failed every recorded index is usable.
C13_RebuildFromSnapshot ==
    /\ [](/\ rebuild_log \in {<<>>, Names(disabled_indexes)}
          /\ (pc \in {"done", "db_done"} /\ NoRebuildFailed) => \A n \in Range(Names(disabled_indexes)) : idx_status[n] = "VALID")
    /\ [][(pc \in {"disable", "db_disable"}) =>
            ((\A n \in IndexNames : (idx_status[n] = "VALID" /\ idx_status'[n] = "UNUSABLE") => n \in Range(Names(disabled_indexes'))) /\
             (\A n \in Range(Names(disabled_indexes')) : idx_status'[n] = "UNUSABLE"))]_vars

\* A staged run is over: the recorded non-unique indexes were rebuilt, none
\* failed, and the unique index was not touched.
C13_Witness ==
    /\ pc = "done"
    /\ disabled_indexes # <<>>
    /\ rebuild_log = Names(disabled_indexes)
    /\ Range(rebuild_log) # IndexNames
    /\ rebuild_failed = {}
    /\ \A n \in IndexNames : idx_status[n] = "VALID"
    /\ \E i \in Units : unit[i].st = "Loaded"

\* The positions of import_csv_24_processes.main after disable_indexes.
AfterSuspend == {"load", "merge", "drop", "rebuild", "done"}

\* C14: what disable_indexes of import_csv_24_processes returned holds the
\* descriptor of every index of the target, the untouched unique ones
\* included (2 unique + 3 non-unique: 5 descriptors), and only the
\* non-unique ones are UNUSABLE.
C14_FullDescriptorSet ==
    (pc \in AfterSuspend /\ disabled_indexes # <<>>) =>
        /\ Range(Names(disabled_indexes)) = IndexNames
        /\ \A k \in 1..NumUnique : idx_status[k] = "VALID"

\* C15: once rebuild_indexes has run with a connection, every index of the
\* list it was given has had exactly one REBUILD issued, in list order,
\* whichever of them failed; and the run goes on to its end.
C15_RebuildBestEffort ==
    /\ [](rebuild_log # <<>> =>
            /\ rebuild_log = Names(disabled_indexes)
            /\ \A x \in Range(disabled_indexes) : Cardinality({k \in 1..Len(rebuild_log) : rebuild_log[k] = x[1]}) = 1
            /\ rebuild_failed \subseteq Range(rebuild_log)
            /\ pc \in {"done", "db_done"})
    /\ (pc \in {"rebuild", "db_rebuild"}) ~> (pc \in {"done", "db_done"})

\* The rebuild of the first index of the list failed and the second one
\* was rebuilt after it.
C15_Witness ==
    /\ pc \in {"done", "db_done"}
    /\ Len(rebuild_log) >= 2
    /\ rebuild_log[1] \in rebuild_failed
    /\ rebuild_log[2] \notin rebuild_failed
    /\ idx_status[rebuild_log[1]] = "UNUSABLE"
    /\ idx_status[rebuild_log[2]] = "VALID"

\* C16: once a run is at its own suspend or past it, every index a previous
\* run left UNUSABLE has had a REBUILD issued by the run (unless the check
\* itself reported that it could not be made).
C16_StaleIndexesRebuilt ==
    pc \notin {"ensure", "split"} =>
        \/ \A n \in unusable_at_start : \E e \in ensure_log : e[1] = n
        \/ <<0, "Error checking indexes">> \in ensure_log

\* C17: a unit's load result is success exactly when its loader returned
\* with exit code 0 or 2; a unit whose loader timed out, or whose worker
\* ended in an exception, has a failure result with 0 rows loaded.
C17_SuccessIffExit ==
    \A i \in Units :
        /\ unit[i].success <=> unit[i].exit \in {"rc0", "rc2"}
        /\ unit[i].exit = "timeout" => (~unit[i].success /\ unit[i].rows_loaded = 0)
        /\ (unit[i].st = "Failed" /\ unit[i].exit = "none") => (~unit[i].success /\ unit[i].rows_loaded = 0)

\* How far a unit is: waiting, taken by a worker, loader running, result in.
Rank(st) == CASE st = "Pending" -> 0 [] st \in {"Staging", "Stagger"} -> 1 [] st = "Loading" -> 2 [] st \in {"Loaded", "Failed"} -> 3

\* C18: every change of a unit moves it forward (so its loader is started
\* at most once, a failed or timed-out unit is not started again, and a
\* recorded result never changes); once the pool has returned there is one
\* result per unit, the result at position k being that of unit k - 1.
C18_OneResultPerUnit ==
    /\ [][\A i \in Units : unit'[i] # unit[i] => Rank(unit'[i].st) > Rank(unit[i].st)]_vars
    /\ []((pc \in {"merge", "drop", "rebuild", "done", "db_rebuild", "db_done"}) =>
            /\ \A i \in Units : unit[i].st \in {"Loaded", "Failed"}
            /\ Len(Results) = Cardinality(Units)
            /\ \A k \in 1..Len(Results) : Results[k].staging_table \in {NoTable, StagingName(k - 1)}
            /\ \A k \in 1..Len(Results) : \A r \in Range(Results[k].csv_rows) : r[1] = k - 1)

\* The pool has returned: the first unit timed out and stayed failed, a
\* later unit is loaded.
C18_Witness ==
    /\ pc \in {"merge", "drop", "rebuild", "done", "db_rebuild", "db_done"}
    /\ Len(Results) >= 2
    /\ Results[1].exit = "timeout" /\ ~Results[1].success
    /\ \E k \in 2..Len(Results) : Results[k].success /\ Results[k].rows_loaded > 0

\* The units whose worker has reached the start of the external loader.
Started == {i \in Units : unit[i].st = "Loading" \/ unit[i].exit # "none"}

\* C19: a worker whose unit has index i has waited at least i times the
\* stagger delay between taking the unit and starting its loader, and two
\* units have waited different times.
C19_StaggeredStart ==
    /\ \A i \in Started : unit[i].waited >= i
    /\ \A i, j \in Started : i # j => unit[i].waited # unit[j].waited

\* The units whose external loader is running.
Loading == {i \in Units : unit[i].st = "Loading"}

\* C20: in the load phase the units a worker is busy with, and so the
\* external loaders running, are never more than the pool size (the smaller
\* of PARALLEL_FILES and the file count in the staged run, PARALLEL_CHUNKS
\* in the chunked run), and whenever units wait, eventually every one of
\* them has been taken by a worker.
C20_BoundedPool ==
    /\ [](/\ pc = "load" => Cardinality(Running) <= Min(PARALLEL_FILES, Cardinality(Units))
          /\ pc = "db_load" => Cardinality(Running) <= PARALLEL_CHUNKS
          /\ Loading \subseteq Running
          /\ pc \notin {"load", "db_load"} => Running = {})
    /\ (\E i \in Units : unit[i].st = "Pending") ~> (\A i \in Units : unit[i].st # "Pending")

\* The pool is full with two loaders running, one of them on the unit that
\* had to wait until the first unit's worker was free.
C20_Witness ==
    /\ pc = "load"
    /\ Cardinality(Units) > PARALLEL_FILES
    /\ Cardinality(Loading) = PARALLEL_FILES
    /\ \E i \in Loading : i >= PARALLEL_FILES
    /\ \E j \in Units : unit[j].st \in {"Loaded", "Failed"}

\* C21: a run that has reached its end has printed a final summary in
\* which succeeded count plus failed count is the number of units and every
\* failed unit is named.
C21_SummaryAccountsAll ==
    pc = "done" =>
        /\ summary # {}
        /\ \A sm \in summary :
            /\ sm.of = Cardinality(Units)
            /\ sm.processed + Len(sm.failed) + sm.more = Cardinality(Units)
            /\ Range(sm.failed) = {i \in Units : ~unit[i].success}

\* The staging sinks of the units whose load succeeded.
SucceededSinks == {unit[i].staging_table : i \in {u \in Units : unit[u].success}}

\* merge_staging_tables went through its whole list with no merge failing.
MergeUnhindered == mpc = "closed" /\ merge_i > Len(staging_tables) /\ \A k \in 1..Len(merge_log) : merge_log[k].outcome = "committed"

C29_ReturnsTotalRows == (pc \in {"drop", "rebuild", "done"}) => tables_merged = total_rows(merge_log)

\* C23: a run interrupted during its load phase dispatches no unit after
\* the interrupt and has produced a final summary that accounts for every
\* unit.
C23_InterruptedSummary ==
    /\ [][pc = "interrupted" => unit' = unit]_vars
    /\ [](pc = "interrupted" => \E sm \in summary : sm.of = Cardinality(Units))

\* C24: a run that ended after disable_indexes made indexes UNUSABLE has
\* had a REBUILD issued for each of them or has reported the ones that
\* remain suspended.
C24_NoSilentUnusable ==
    (pc \in {"interrupted", "aborted"} /\ \E n \in Range(Names(disabled_indexes)) : idx_status[n] = "UNUSABLE") =>
        \/ Range(Names(disabled_indexes)) \subseteq Range(rebuild_log)
        \/ summary # {}

\* C25: a run of par.main whose partition list came back empty invokes no
\* extractor.
C25_EmptyNoSideEffects == partitions \in {<<>>, <<FullTable>>} => extracts = <<>>

\* C26: split_csv(file, K) of a file of at least one data row returns
\* exactly K chunk files.
C26_ExactlyKUnits == (spc = "done" /\ total_lines >= 1) => Len(chunk_files) = num_chunks

\* C27: split 4 ways, 10,000,000 rows give four chunks of 2,500,000 and
\* 10,000,001 rows give 2,500,001 then three times 2,500,000.
C27_LargeSplit ==
    (spc = "done" /\ num_chunks = 4) =>
        /\ total_lines = 10000000 => chunk_sizes = <<2500000, 2500000, 2500000, 2500000>>
        /\ total_lines = 10000001 => chunk_sizes = <<2500001, 2500000, 2500000, 2500000>>

\* C28: for every partition count T >= 1 the part ranges are contiguous, in
\* order, non-empty (so pairwise disjoint) and cover [0, T); every range but
\* the last holds ceil(T / 4) partitions and the last the remainder; and
\* the file number of an extracted partition is its 1-based position in the
\* whole partition list, so no two partitions write the same file.
C28_PartRanges ==
    (pc \in {"par_choose", "par_aborted", "par_extract", "par_summary", "par_done"}) =>
        LET t == Len(partitions)
            m == Len(part_ranges)
        IN /\ t >= 1 /\ m >= 1
           /\ part_ranges[1][1] = 0
           /\ part_ranges[m][2] = t
           /\ \A k \in 1..(m - 1) : part_ranges[k][2] = part_ranges[k + 1][1]
           /\ \A k \in 1..m : part_ranges[k][1] < part_ranges[k][2]
           /\ \A k \in 1..(m - 1) : part_ranges[k][2] - part_ranges[k][1] = CeilDiv(t, 4)
           /\ part_ranges[m][2] - part_ranges[m][1] <= CeilDiv(t, 4)
           /\ \A k \in 1..Len(extracts) :
                /\ extracts[k].output_file \in 1..t
                /\ partitions[extracts[k].output_file].name = extracts[k].partition_name
                /\ extracts[k].output_file = part_ranges[part_num][1] + k
           /\ \A j, k \in 1..Len(extracts) : j # k => extracts[j].output_file # extracts[k].output_file

\* Five partitions make the parts [0,2), [2,4), [4,5); the third part was
\* extracted and its one partition, the fifth, went to file 5.
C28_Witness ==
    /\ pc = "par_done"
    /\ Len(partitions) = 5
    /\ part_ranges = <<(<<0, 2>>), (<<2, 4>>), (<<4, 5>>)>>
    /\ part_num = 3
    /\ Len(extracts) = 1
    /\ extracts[1].partition_name = 5
    /\ extracts[1].output_file = 5

\* Every index disable_indexes made UNUSABLE has had a REBUILD issued,
\* unless rebuild_indexes could not connect.
RebuildAttempted == 0 \notin rebuild_failed => Range(Names(disabled_indexes)) \subseteq Range(rebuild_log)

\* C30: indexes are made UNUSABLE only while no unit's loader has started;
\* a REBUILD is issued only when every unit has its load result and the
\* merge is over; and a run whose pool has returned reaches its end with a
\* REBUILD issued for every index it suspended, whatever the number of
\* units whose load or merge failed.
C30_SuspendBeforeRebuildAfter ==
    /\ [][(disabled_indexes' # disabled_indexes \/ \E n \in IndexNames : idx_status[n] = "VALID" /\ idx_status'[n] = "UNUSABLE") => (Started = {} /\ Started' = {})]_vars
    /\ [](rebuild_log # <<>> => (PoolDone /\ txn = {} /\ mpc \in {"idle", "closed"}))
    /\ [](pc \in {"done", "db_done"} => RebuildAttempted)
    /\ (pc \in {"load", "db_load"} /\ PoolDone) ~> (pc \in {"done", "db_done"} /\ RebuildAttempted)

\* A run of two units or more is over: every unit failed its load, and the
\* suspended index was rebuilt after that.
C30_Witness ==
    /\ pc \in {"done", "db_done"}
    /\ Cardinality(Units) >= 2
    /\ \A i \in Units : unit[i].st = "Failed" /\ unit[i].exit # "none"
    /\ disabled_indexes # <<>>
    /\ rebuild_log = Names(disabled_indexes)
    /\ \A n \in IndexNames : idx_status[n] = "VALID"

C32_DistinctPaths ==
    \A j, k \in 1..Len(paths) : j # k =>
        /\ paths[j].ctl_file # paths[k].ctl_file
        /\ paths[j].log_file # paths[k].log_file
        /\ paths[j].bad_file # paths[k].bad_file

\* The units of a staged run whose worker is past create_staging_table
\* without a staging table.
NoSink == {i \in Units : unit[i].st \notin {"Pending", "Staging"} /\ unit[i].staging_table = NoTable}

\* C33: in a staged run a unit whose staging table could not be created
\* has a failure result with 0 rows and no staging table name; its loader
\* never started, none of its rows is in a staging table or in the final
\* table, and no table of its name is merged or dropped.
C33_NoSinkNoLoad ==
    (pc \in {"load", "merge", "drop", "rebuild", "done"}) =>
        \A i \in NoSink :
            /\ unit[i].st = "Failed" /\ ~unit[i].success /\ unit[i].rows_loaded = 0
            /\ unit[i].exit = "none" /\ unit[i].target = NoTable
            /\ \A r \in FinalRows \cup UNION {stg[t] : t \in DOMAIN stg} : r[1] # i
            /\ StagingName(i) \notin Range(staging_tables) \cup dropped
            /\ \A e \in txn \cup Range(merge_log) : e.sink # StagingName(i)

\* A staged run is over: the first unit had no staging table (a stale one
\* of its name is still there), the second was loaded and merged.
C33_Witness ==
    /\ pc = "done"
    /\ 1 \in Units
    /\ 0 \in NoSink
    /\ StagingName(0) \in DOMAIN stg
    /\ unit[1].success /\ unit[1].rows_loaded = 1
    /\ final = {<<1, 1>>}

\* C34: the total of rows loaded that the final summary of a staged run
\* gives is the number of rows the run committed into the final table.
C34_TotalIsCommitted == pc = "done" => \A sm \in summary : sm.total_rows = Cardinality({r \in final : r[1] \in Units})

\* C35: when the requested truncate failed (the rows of the earlier load
\* are still in the destination table), no index is suspended, no unit's
\* loader starts and no row is added to the table.
C35_NoLoadWithoutTruncate ==
    (pc \notin {"truncate", "db_truncate"} /\ OldRows \subseteq final) =>
        /\ disabled_indexes = <<>>
        /\ Started = {}
        /\ final = OldRows

\* The staging tables a merge was attempted for, in the order of the
\* attempts.
AttemptedSinks == [k \in 1..Len(merge_log) |-> merge_log[k].sink]

\* C36: the merge attempts made so far are for the first staging tables of
\* the list, one each, in list order (ascending unit index), and once the
\* merge phase is over every staging table of a loaded unit has had its
\* attempt.
C36_OneAttemptEach ==
    /\ Len(AttemptedSinks) <= Len(staging_tables)
    /\ AttemptedSinks = SubSeq(staging_tables, 1, Len(AttemptedSinks))
    /\ \A j, k \in 1..Len(staging_tables) : j < k => \E a, b \in Units : a < b /\ staging_tables[j] = StagingName(a) /\ staging_tables[k] = StagingName(b)
    /\ (pc \in {"drop", "rebuild", "done"}) => AttemptedSinks = staging_tables

\* C37: split_csv of a file of at least one data row returns at most
\* num_chunks chunk files, none empty, numbered 0..m-1; so in
\* load_csv_parallel there are no more units than pool workers and a unit
\* that no worker has taken yet finds a worker free.
C37_AtMostKChunks ==
    /\ (spc = "done" /\ total_lines >= 1) =>
            /\ Len(chunk_files) \in 1..num_chunks
            /\ \A c \in 1..Len(chunk_files) : chunk_files[c].lines # <<>> /\ chunk_files[c].num = c - 1
    /\ pc = "db_load" =>
            /\ Cardinality(Units) = Len(chunk_files)
            /\ Cardinality(Units) <= PARALLEL_CHUNKS
            /\ \A i \in Units : Queued(i) => WorkerFree(PARALLEL_CHUNKS)

\* A file of three rows: two chunks, of two rows and one, and both units
\* are with a worker at once.
C37_Witness ==
    /\ pc = "db_load"
    /\ total_lines = 3
    /\ Len(chunk_files) = 2
    /\ Len(chunk_files[1].lines) = 2 /\ Len(chunk_files[2].lines) = 1
    /\ Cardinality(Units) = 2
    /\ Running = Units

\* Digits with at most one point among them, after an optional minus sign.
IsDecimal(s) ==
    LET body == IF s # <<>> /\ s[1] = "-" THEN Tail(s) ELSE s
    IN /\ \A k \in 1..Len(body) : body[k] \in Digits \cup {"."}
       /\ Cardinality({k \in 1..Len(body) : body[k] = "."}) <= 1
       /\ \E k \in 1..Len(body) : body[k] \in Digits

\* Digits after an optional minus sign.
IsInteger(s) ==
    LET body == IF s # <<>> /\ s[1] = "-" THEN Tail(s) ELSE s
    IN body # <<>> /\ \A k \in 1..Len(body) : body[k] \in Digits

\* The field is a number: a decimal, or a decimal, the letter e and an
\* integer exponent.
IsNumber(s) == IsDecimal(s) \/ \E p \in 1..Len(s) : s[p] = "e" /\ IsDecimal(SubSeq(s, 1, p - 1)) /\ IsInteger(SubSeq(s, p + 1, Len(s)))

\* C38: get_csv_header returns a header exactly when the first field of
\* the first line is not a number.
C38_HeaderIffNotNumber == pc = "header_done" => ((header_parts # <<>>) <=> ~IsNumber(first_line))

=============================================================================
